---- MODULE Spec2Model ----
(***************************************************************************)
(* LitheServer, syntax_test/example.c and syntax_test/example.cpp.        *)
(*                                                                         *)
(* example.c   : the QuickServer accept / recv / parse / respond loop      *)
(*               (create_server_socket, handle_client_connection,          *)
(*               parse_http_request, main, cleanup_and_exit).              *)
(* example.cpp : AsyncUserService, a vector of users behind a              *)
(*               std::shared_mutex.                                        *)
(*                                                                         *)
(* C strings are sequences of characters without the terminating NUL; a    *)
(* character is one of the symbols of Chars.  Positions are 1-based, so    *)
(* the C index i is position i + 1 and "at the terminator" is Len(s) + 1.  *)
(***************************************************************************)
EXTENDS Integers, Sequences, FiniteSets, TLC

\* ------------------------------------------------------------------------
\* Program constants (example.c)
\* ------------------------------------------------------------------------
MAX_BUFFER_SIZE == 1024

DEFAULT_PORT == 8080

\* sizeof method / path / version of http_request_t
METHOD_SIZE == 16

PATH_SIZE == 256

VERSION_SIZE == 16

\* the field widths of the sscanf format "%15s %255s %15s"
METHOD_WIDTH == 15

PATH_WIDTH == 255

VERSION_WIDTH == 15

\* ------------------------------------------------------------------------
\* Characters and strings
\* ------------------------------------------------------------------------
SP == "SP"

CR == "CR"

LF == "LF"

\* "a" stands for any character that is neither white space nor a delimiter
Chars == {"a", "p", "i", "/", SP, CR, LF}

\* isspace(), over Chars
IsSpace(c) == c \in {SP, CR, LF}

\* the delimiter set "\r\n" handed to strtok_r
Delims == {CR, LF}

Rep(c, n) == [i \in 1..n |-> c]

Min(a, b) == IF a <= b THEN a ELSE b

SetMin(S) == CHOOSE x \in S : \A y \in S : x <= y

\* strcat(dst, src) without a bound of its own: the caller guards it
strcat(dst, src) == dst \o src

NoTok == [found |-> FALSE, tok |-> <<>>, save |-> 0]

\* strtok_r(NULL, delim, &saveptr) on the string s, scanning from position p:
\* skip every leading delimiter; NULL when the string ends there; else the
\* token runs to the next delimiter (overwritten by NUL, saveptr behind it)
\* or to the end of the string.
strtok_r(s, p) ==
    LET n     == Len(s)
        heads == {i \in p..n : s[i] \notin Delims}
    IN  IF heads = {} THEN [NoTok EXCEPT !.save = n + 1]
        ELSE LET b    == SetMin(heads)
                 ends == {j \in b..n : s[j] \in Delims}
                 e    == IF ends = {} THEN n + 1 ELSE SetMin(ends)
             IN  [found |-> TRUE,
                  tok   |-> SubSeq(s, b, e - 1),
                  save  |-> IF e <= n THEN e + 1 ELSE n + 1]

\* One %<w>s directive of sscanf on s from position p: skip white space, fail
\* at the end of the input, else store at most w non-space characters.
ScanField(s, p, w) ==
    LET n     == Len(s)
        heads == {i \in p..n : ~IsSpace(s[i])}
    IN  IF heads = {} THEN [ok |-> FALSE, val |-> <<>>, next |-> n + 1]
        ELSE LET b    == SetMin(heads)
                 ends == {j \in b..n : IsSpace(s[j])}
                 e    == Min(IF ends = {} THEN n + 1 ELSE SetMin(ends), b + w)
             IN  [ok |-> TRUE, val |-> SubSeq(s, b, e - 1), next |-> e]

\* sscanf(line, "%15s %255s %15s", method, path, version): the number of
\* fields stored (EOF = -1 when the input ends before the first one) and the
\* fields themselves; a field that is not stored is left as it was (old).
sscanf3(line, old) ==
    LET f1 == ScanField(line, 1, METHOD_WIDTH)
        f2 == ScanField(line, f1.next, PATH_WIDTH)
        f3 == ScanField(line, f2.next, VERSION_WIDTH)
    IN  IF ~f1.ok THEN [n |-> -1, req |-> old]
        ELSE IF ~f2.ok THEN [n |-> 1, req |-> [old EXCEPT !.method = f1.val]]
        ELSE IF ~f3.ok THEN [n |-> 2, req |-> [old EXCEPT !.method = f1.val,
                                                          !.path = f2.val]]
        ELSE [n |-> 3, req |-> [old EXCEPT !.method = f1.val,
                                           !.path = f2.val,
                                           !.version = f3.val]]

\* ------------------------------------------------------------------------
\* parse_http_request (example.c 174-228), one step at a time
\* ------------------------------------------------------------------------
\* http_request_t; a local of handle_client_connection, nothing reads it
\* before parse_http_request has stored into it
EmptyRequest ==
    [method |-> <<>>, path |-> <<>>, version |-> <<>>,
     headers |-> <<>>, body |-> <<>>]

\* the activation of parse_http_request: where it is (pc), request_copy and
\* whether it is still allocated, saveptr, *request, in_headers, the value
\* returned
IdleParse ==
    [pc |-> "idle", copy |-> <<>>, copy_live |-> FALSE, save |-> 1,
     request |-> EmptyRequest, in_headers |-> 1, ret |-> 0]

Return(st, r) == [st EXCEPT !.pc = "p_ret", !.ret = r, !.copy_live = FALSE]

\* lines 179-187: the NULL checks and strdup
ParseCheck(raw, raw_null, req_null, alloc_ok) ==
    IF raw_null \/ req_null THEN Return(IdleParse, -1)
    ELSE IF ~alloc_ok THEN Return(IdleParse, -1)
    ELSE [IdleParse EXCEPT !.pc = "p_first", !.copy = raw, !.copy_live = TRUE]

\* lines 190-207: the request line
ParseFirst(st) ==
    LET t  == strtok_r(st.copy, 1)
        sc == sscanf3(t.tok, st.request)
    IN  IF ~t.found THEN Return(st, -1)
        ELSE IF sc.n # 3 THEN Return([st EXCEPT !.request = sc.req], -1)
        ELSE [st EXCEPT !.pc = "p_loop",
                        !.save = t.save,
                        !.request = [sc.req EXCEPT !.headers = <<>>,
                                                   !.body = <<>>],
                        !.in_headers = 1]

\* line 215
HeadersFit(headers, line) == Len(headers) + Len(line) + 2 < MAX_BUFFER_SIZE

\* line 220
BodyFits(body, line) == Len(body) + Len(line) + 1 < MAX_BUFFER_SIZE

\* lines 208-227: one evaluation of the while condition and one pass of its
\* body, or the exit of the loop
ParseIter(st) ==
    LET t == strtok_r(st.copy, st.save)
        r == st.request
    IN  IF ~t.found THEN Return(st, 0)
        ELSE IF Len(t.tok) = 0
             THEN [st EXCEPT !.save = t.save, !.in_headers = 0]
        ELSE IF st.in_headers # 0
             THEN IF HeadersFit(r.headers, t.tok)
                  THEN [st EXCEPT !.save = t.save,
                                  !.request.headers =
                                      strcat(strcat(r.headers, t.tok), <<LF>>)]
                  ELSE [st EXCEPT !.save = t.save]
        ELSE IF BodyFits(r.body, t.tok)
             THEN [st EXCEPT !.save = t.save,
                             !.request.body = strcat(r.body, t.tok)]
             ELSE [st EXCEPT !.save = t.save]

\* ------------------------------------------------------------------------
\* Bounds and the inputs drawn from them
\* ------------------------------------------------------------------------
\* tokens on the request line
MaxTokens == 3

\* lines after the request line
MaxLines == 2

\* connections main accepts
MaxConns == 2

\* descriptors of the process above stdin, stdout and stderr
MaxFds == 3

\* tasks started on one AsyncUserService
MaxTasks == 3

\* distinct user ids
MaxIds == 2

\* the literal of line 159
ApiPrefix == <<"/", "a", "p", "i", "/">>

\* tokens: a short one, one longer than the method and version widths, and
\* an /api/ path longer than the path width
Tokens ==
    {Rep("a", 1), Rep("a", METHOD_WIDTH + 1),
     ApiPrefix \o Rep("a", PATH_WIDTH + 1 - Len(ApiPrefix))}

\* line lengths around the headers guard
LineLens == {1, MAX_BUFFER_SIZE - 3, MAX_BUFFER_SIZE - 2}

\* CRLF, and CRLF CRLF (the blank line of an HTTP message)
Seps == {<<CR, LF>>, <<CR, LF, CR, LF>>}

TokenSeqs == UNION {[1..k -> Tokens] : k \in 0..MaxTokens}

LineSeqs == UNION {[1..k -> LineLens] : k \in 0..MaxLines}

RECURSIVE JoinTokens(_)
JoinTokens(ts) ==
    IF ts = <<>> THEN <<>>
    ELSE IF Len(ts) = 1 THEN ts[1]
    ELSE ts[1] \o <<SP>> \o JoinTokens(Tail(ts))

RECURSIVE JoinLines(_, _)
JoinLines(ls, sep) ==
    IF ls = <<>> THEN <<>>
    ELSE sep \o Rep("a", ls[1]) \o JoinLines(Tail(ls), sep)

\* the byte strings a client sends or a caller passes
Inputs ==
    {JoinTokens(ts) \o JoinLines(ls, sep) :
        ts \in TokenSeqs, ls \in LineSeqs, sep \in Seps}

\* port arguments after atoi, around the range check of line 312
PortArgs == {0, 1, 65535, 65536}

Fds == 3..(2 + MaxFds)

\* ------------------------------------------------------------------------
\* State
\* ------------------------------------------------------------------------
VARIABLES
    entry,           \* which function the process was entered at
    pc,              \* where main (and what it calls) is
    fdtab,           \* the descriptor table: closed, socket, listening, client
    port,            \* main's port
    sockfd,          \* create_server_socket's sockfd
    css_failed,      \* the call of create_server_socket that failed, or none
    css_ret,         \* what create_server_socket returned
    server_socket,   \* the global of line 56
    server_running,  \* the global of line 57
    client_socket,   \* main's client_socket
    conn,            \* connections accepted so far
    bytes_received,  \* handle_client_connection's bytes_received
    buffer,          \* the bytes of buffer before buffer[bytes_received]
    arg,             \* the arguments of the running parse_http_request
    parse,           \* the activation of parse_http_request
    routed,          \* the handler the current connection was routed to
    sent,            \* responses sent on the current connection
    users_,          \* AsyncUserService::users_
    users_mutex_,    \* AsyncUserService::users_mutex_
    task             \* the tasks running on the service

cvars ==
    <<entry, pc, fdtab, port, sockfd, css_failed, css_ret, server_socket,
      server_running, client_socket, conn, bytes_received, buffer, arg, parse,
      routed, sent>>

uvars == <<users_, users_mutex_, task>>

vars == <<cvars, uvars>>

NoArg == [raw |-> <<>>, raw_null |-> FALSE, req_null |-> FALSE, alloc_ok |-> TRUE]

FreeFds == {f \in Fds : fdtab[f] = "closed"}

\* close(fd): EBADF, and nothing closed, when fd is not open
Close(tab, fd) == IF fd \in Fds THEN [tab EXCEPT ![fd] = "closed"] ELSE tab

\* every descriptor is closed when the process ends
AllClosed == [f \in Fds |-> "closed"]

\* ------------------------------------------------------------------------
\* example.c: main, create_server_socket, handle_client_connection
\* ------------------------------------------------------------------------
UsersIdle ==
    /\ users_ = <<>>
    /\ users_mutex_ = [writer |-> 0, readers |-> {}]
    /\ task = <<>>

InitC ==
    /\ entry = "none"
    /\ pc = "start"
    /\ fdtab = AllClosed
    /\ port = DEFAULT_PORT
    /\ sockfd = -1
    /\ css_failed = "none"
    /\ css_ret = 0
    /\ server_socket = -1
    /\ server_running = 1
    /\ client_socket = -1
    /\ conn = 0
    /\ bytes_received = 0
    /\ buffer = <<>>
    /\ arg = NoArg
    /\ parse = IdleParse
    /\ routed = "none"
    /\ sent = 0

Init == InitC /\ UsersIdle

\* lines 304-320: the port argument (absent: DEFAULT_PORT) and the handlers
MainStart ==
    /\ pc = "start"
    /\ \E given \in BOOLEAN, p \in PortArgs :
         /\ port' = IF given THEN p ELSE port
         /\ pc' = IF given /\ (p <= 0 \/ p > 65535) THEN "exit_failure"
                  ELSE "css_socket"
    /\ entry' = "main"
    /\ UNCHANGED <<fdtab, sockfd, css_failed, css_ret, server_socket,
                   server_running, client_socket, conn, bytes_received, buffer,
                   arg, parse, routed, sent, uvars>>

\* create_server_socket returning -1 without close(sockfd)
CssFail_leak(call) ==
    /\ css_failed' = call
    /\ css_ret' = -1
    /\ pc' = "main_check"
    /\ UNCHANGED fdtab

\* what create_server_socket does on a failed call after socket(): lines
\* 92-94, 105-107, 112-114
CssFail(call) ==
    /\ fdtab' = Close(fdtab, sockfd)
    /\ css_failed' = call
    /\ css_ret' = -1
    /\ pc' = "main_check"

\* lines 84-88
CssSocket ==
    /\ pc = "css_socket"
    /\ \E ok \in {b \in BOOLEAN : b => FreeFds # {}} :
         IF ok
         THEN /\ sockfd' = SetMin(FreeFds)
              /\ fdtab' = [fdtab EXCEPT ![SetMin(FreeFds)] = "socket"]
              /\ pc' = "css_setsockopt"
              /\ UNCHANGED <<css_failed, css_ret>>
         ELSE /\ sockfd' = -1
              /\ css_failed' = "socket"
              /\ css_ret' = -1
              /\ pc' = "main_check"
              /\ UNCHANGED fdtab
    /\ UNCHANGED <<entry, port, server_socket, server_running, client_socket,
                   conn, bytes_received, buffer, arg, parse, routed, sent, uvars>>

\* lines 91-95
CssSetsockopt ==
    /\ pc = "css_setsockopt"
    /\ \E ok \in BOOLEAN :
         IF ok
         THEN /\ pc' = "css_bind"
              /\ UNCHANGED <<fdtab, css_failed, css_ret>>
         ELSE CssFail("setsockopt")
    /\ UNCHANGED <<entry, port, sockfd, server_socket, server_running,
                   client_socket, conn, bytes_received, buffer, arg, parse,
                   routed, sent, uvars>>

\* lines 98-108
CssBind ==
    /\ pc = "css_bind"
    /\ \E ok \in BOOLEAN :
         IF ok
         THEN /\ pc' = "css_listen"
              /\ UNCHANGED <<fdtab, css_failed, css_ret>>
         ELSE CssFail("bind")
    /\ UNCHANGED <<entry, port, sockfd, server_socket, server_running,
                   client_socket, conn, bytes_received, buffer, arg, parse,
                   routed, sent, uvars>>

\* lines 111-118
CssListen ==
    /\ pc = "css_listen"
    /\ \E ok \in BOOLEAN :
         IF ok
         THEN /\ fdtab' = [fdtab EXCEPT ![sockfd] = "listening"]
              /\ css_ret' = sockfd
              /\ pc' = "main_check"
              /\ UNCHANGED css_failed
         ELSE CssFail("listen")
    /\ UNCHANGED <<entry, port, sockfd, server_socket, server_running,
                   client_socket, conn, bytes_received, buffer, arg, parse,
                   routed, sent, uvars>>

\* lines 323-332
MainCheck ==
    /\ pc = "main_check"
    /\ server_socket' = css_ret
    /\ pc' = IF css_ret < 0 THEN "exit_failure" ELSE "loop"
    /\ UNCHANGED <<entry, fdtab, port, sockfd, css_failed, css_ret,
                   server_running, client_socket, conn, bytes_received, buffer,
                   arg, parse, routed, sent, uvars>>

\* line 335
MainLoop ==
    /\ pc = "loop"
    /\ pc' = IF server_running # 0 THEN "accept" ELSE "cleanup"
    /\ UNCHANGED <<entry, fdtab, port, sockfd, css_failed, css_ret,
                   server_socket, server_running, client_socket, conn,
                   bytes_received, buffer, arg, parse, routed, sent, uvars>>

\* lines 336-349: accept returns a new descriptor, or fails with EINTR
\* (continue) or another error (break)
MainAccept ==
    /\ pc = "accept"
    /\ \E res \in {r \in {"ok", "EINTR", "error"} :
                      r = "ok" => FreeFds # {} /\ conn < MaxConns} :
         IF res = "ok"
         THEN /\ client_socket' = SetMin(FreeFds)
              /\ fdtab' = [fdtab EXCEPT ![SetMin(FreeFds)] = "client"]
              /\ conn' = conn + 1
              /\ pc' = "hcc_recv"
         ELSE /\ client_socket' = -1
              /\ pc' = IF res = "EINTR" THEN "loop" ELSE "cleanup"
              /\ UNCHANGED <<fdtab, conn>>
    /\ routed' = "none"
    /\ sent' = 0
    /\ UNCHANGED <<entry, port, sockfd, css_failed, css_ret, server_socket,
                   server_running, bytes_received, buffer, arg, parse, uvars>>

\* recv handed sizeof(buffer)
RecvLen_full == MAX_BUFFER_SIZE

\* the length handed to recv, line 140: sizeof(buffer) - 1
RecvLen == MAX_BUFFER_SIZE - 1

\* what recv may return for a client that sends w: an error, end of stream,
\* or the count of bytes stored, never more than len
RecvResults(w, len) ==
    {-1, 0} \cup {k \in {1, Len(w), len} : 1 <= k /\ k <= Min(Len(w), len)}

\* lines 139-149; buffer, bytes_received and request are locals, gone when
\* handle_client_connection returns (HccLeave)
HccRecv ==
    /\ pc = "hcc_recv"
    /\ \E w \in Inputs :
         \E r \in RecvResults(w, RecvLen) :
            IF r <= 0
            THEN /\ fdtab' = Close(fdtab, client_socket)
                 /\ pc' = "loop"
                 /\ UNCHANGED <<bytes_received, buffer>>
            ELSE /\ bytes_received' = r
                 /\ buffer' = SubSeq(w, 1, r)
                 /\ pc' = "hcc_parse"
                 /\ UNCHANGED fdtab
    /\ UNCHANGED <<entry, port, sockfd, css_failed, css_ret, server_socket,
                   server_running, client_socket, conn, arg, parse, routed,
                   sent, uvars>>

HccLeave ==
    /\ bytes_received' = 0
    /\ buffer' = <<>>
    /\ arg' = NoArg
    /\ parse' = IdleParse

\* line 152, the call: buffer and &request are not NULL
HccParseCall ==
    /\ pc = "hcc_parse"
    /\ \E alloc_ok \in BOOLEAN :
         /\ arg' = [raw |-> buffer, raw_null |-> FALSE, req_null |-> FALSE,
                    alloc_ok |-> alloc_ok]
         /\ parse' = ParseCheck(buffer, FALSE, FALSE, alloc_ok)
    /\ pc' = "hcc_parsing"
    /\ UNCHANGED <<entry, fdtab, port, sockfd, css_failed, css_ret,
                   server_socket, server_running, client_socket, conn,
                   bytes_received, buffer, routed, sent, uvars>>

\* parse_http_request called by another caller, with any arguments
DirectCall ==
    /\ pc = "start"
    /\ \E raw \in Inputs, raw_null \in BOOLEAN, req_null \in BOOLEAN,
          alloc_ok \in BOOLEAN :
         /\ arg' = [raw |-> IF raw_null THEN <<>> ELSE raw,
                    raw_null |-> raw_null, req_null |-> req_null,
                    alloc_ok |-> alloc_ok]
         /\ parse' = ParseCheck(raw, raw_null, req_null, alloc_ok)
    /\ entry' = "direct"
    /\ pc' = "direct"
    /\ UNCHANGED <<fdtab, port, sockfd, css_failed, css_ret, server_socket,
                   server_running, client_socket, conn, bytes_received, buffer,
                   routed, sent, uvars>>

ParseFrame ==
    <<entry, pc, fdtab, port, sockfd, css_failed, css_ret, server_socket,
      server_running, client_socket, conn, bytes_received, buffer, arg,
      routed, sent, uvars>>

ParseFirstStep ==
    /\ parse.pc = "p_first"
    /\ parse' = ParseFirst(parse)
    /\ UNCHANGED ParseFrame

ParseLoopStep ==
    /\ parse.pc = "p_loop"
    /\ parse' = ParseIter(parse)
    /\ UNCHANGED ParseFrame

\* line 159
IsApi(path) == Len(path) >= 5 /\ SubSeq(path, 1, 5) = ApiPrefix

\* lines 152-156: a failed parse closes the socket and returns
HccParseFailed(ret) == ret # 0

HccParseReturn ==
    /\ pc = "hcc_parsing"
    /\ parse.pc = "p_ret"
    /\ IF HccParseFailed(parse.ret)
       THEN /\ fdtab' = Close(fdtab, client_socket)
            /\ pc' = "loop"
            /\ HccLeave
       ELSE /\ pc' = "hcc_route"
            /\ UNCHANGED <<fdtab, bytes_received, buffer, arg, parse>>
    /\ UNCHANGED <<entry, port, sockfd, css_failed, css_ret, server_socket,
                   server_running, client_socket, conn, routed, sent, uvars>>

\* lines 159-163: handle_api_request and serve_static_file are declared and
\* not defined in the file; each is taken to answer on client_socket and to
\* return, leaving the descriptor to its caller
HccRoute ==
    /\ pc = "hcc_route"
    /\ routed' = IF IsApi(parse.request.path) THEN "api" ELSE "static"
    /\ sent' = sent + 1
    /\ pc' = "hcc_close"
    /\ UNCHANGED <<entry, fdtab, port, sockfd, css_failed, css_ret,
                   server_socket, server_running, client_socket, conn,
                   bytes_received, buffer, arg, parse, uvars>>

\* handle_client_connection returning without close(client_socket)
HccClose_leak ==
    /\ pc = "hcc_close"
    /\ pc' = "loop"
    /\ HccLeave
    /\ UNCHANGED <<entry, fdtab, port, sockfd, css_failed, css_ret,
                   server_socket, server_running, client_socket, conn, routed,
                   sent, uvars>>

\* line 165
HccClose ==
    /\ pc = "hcc_close"
    /\ fdtab' = Close(fdtab, client_socket)
    /\ pc' = "loop"
    /\ HccLeave
    /\ UNCHANGED <<entry, port, sockfd, css_failed, css_ret, server_socket,
                   server_running, client_socket, conn, routed, sent, uvars>>

\* lines 352-353 and 360-373 with signal = 0
MainCleanup ==
    /\ pc = "cleanup"
    /\ server_running' = 0
    /\ fdtab' = IF server_socket >= 0 THEN Close(fdtab, server_socket) ELSE fdtab
    /\ server_socket' = -1
    /\ pc' = "exit_success"
    /\ UNCHANGED <<entry, port, sockfd, css_failed, css_ret, client_socket,
                   conn, bytes_received, buffer, arg, parse, routed, sent, uvars>>

Running == entry = "main" /\ pc \notin {"exit_failure", "exit_success", "exited"}

\* lines 360-373 as the handler of SIGINT and SIGTERM: exit() ends the
\* process wherever main is, and with it every descriptor
Signal ==
    /\ Running
    /\ server_running' = 0
    /\ server_socket' = -1
    /\ fdtab' = AllClosed
    /\ pc' = "exited"
    /\ HccLeave
    /\ UNCHANGED <<entry, port, sockfd, css_failed, css_ret, client_socket,
                   conn, routed, sent, uvars>>

Next ==
    \/ MainStart
    \/ CssSocket
    \/ CssSetsockopt
    \/ CssBind
    \/ CssListen
    \/ MainCheck
    \/ MainLoop
    \/ MainAccept
    \/ HccRecv
    \/ HccParseCall
    \/ DirectCall
    \/ ParseFirstStep
    \/ ParseLoopStep
    \/ HccParseReturn
    \/ HccRoute
    \/ HccClose
    \/ MainCleanup
    \/ Signal

Spec == Init /\ [][Next]_vars

\* ------------------------------------------------------------------------
\* example.cpp: AsyncUserService.  Every call of add_user_async and
\* find_user_async starts a thread (std::launch::async) that runs the lambda;
\* for_each_user runs on its caller's thread.  task[t].pc is where thread t
\* is: at the lock, inside (holding it), or done.  A user is its id and the
\* call that carried it.  Results: -1 none yet; add 1 (true) or 0 (false);
\* find the index in users_ of the user copied out, 0 for std::nullopt.
\* ------------------------------------------------------------------------
Ids == 1..MaxIds

Tasks == 1..Len(task)

NewTask(kind, id) == [kind |-> kind, id |-> id, pc |-> "lock", result |-> -1]

\* std::shared_mutex: lock() waits for no owner at all, lock_shared() for no
\* exclusive owner
CanLock(m) == m.writer = 0 /\ m.readers = {}

CanLockShared(m) == m.writer = 0

Unlock(m, t) ==
    [writer |-> IF m.writer = t THEN 0 ELSE m.writer, readers |-> m.readers \ {t}]

\* lines 319-320, 302-303, 339: the calls, from any thread, at any time
CallAddUserAsync ==
    /\ Len(task) < MaxTasks
    /\ \E id \in Ids : task' = Append(task, NewTask("add", id))
    /\ UNCHANGED <<users_, users_mutex_, cvars>>

CallFindUserAsync ==
    /\ Len(task) < MaxTasks
    /\ \E id \in Ids : task' = Append(task, NewTask("find", id))
    /\ UNCHANGED <<users_, users_mutex_, cvars>>

CallForEachUser ==
    /\ Len(task) < MaxTasks
    /\ task' = Append(task, NewTask("each", 0))
    /\ UNCHANGED <<users_, users_mutex_, cvars>>

\* add_user_async taking the lock shared, as its neighbours do
AddLock_shared(t) ==
    /\ task[t].kind = "add" /\ task[t].pc = "lock"
    /\ CanLockShared(users_mutex_)
    /\ users_mutex_' = [users_mutex_ EXCEPT !.readers = @ \cup {t}]
    /\ task' = [task EXCEPT ![t].pc = "any_of"]
    /\ UNCHANGED <<users_, cvars>>

\* line 321
AddLock(t) ==
    /\ task[t].kind = "add" /\ task[t].pc = "lock"
    /\ CanLock(users_mutex_)
    /\ users_mutex_' = [users_mutex_ EXCEPT !.writer = t]
    /\ task' = [task EXCEPT ![t].pc = "any_of"]
    /\ UNCHANGED <<users_, cvars>>

\* the existence check looking at the last user only
Exists_last(us, id) == us # <<>> /\ us[Len(us)].id = id

\* lines 324-327
Exists(us, id) == \E i \in 1..Len(us) : us[i].id = id

\* lines 324-329
AddAnyOf(t) ==
    /\ task[t].kind = "add" /\ task[t].pc = "any_of"
    /\ task' = [task EXCEPT ![t].pc = IF Exists(users_, task[t].id)
                                      THEN "ret_false" ELSE "emplace"]
    /\ UNCHANGED <<users_, users_mutex_, cvars>>

\* line 330
AddEmplace(t) ==
    /\ task[t].kind = "add" /\ task[t].pc = "emplace"
    /\ users_' = Append(users_, [id |-> task[t].id, by |-> t])
    /\ task' = [task EXCEPT ![t].pc = "ret_true"]
    /\ UNCHANGED <<users_mutex_, cvars>>

\* lines 331, 333: the return, which releases the lock
AddReturn(t) ==
    /\ task[t].kind = "add" /\ task[t].pc \in {"ret_true", "ret_false"}
    /\ users_mutex_' = Unlock(users_mutex_, t)
    /\ task' = [task EXCEPT ![t].pc = "done",
                            ![t].result = IF task[t].pc = "ret_true" THEN 1 ELSE 0]
    /\ UNCHANGED <<users_, cvars>>

\* line 304
FindLock(t) ==
    /\ task[t].kind = "find" /\ task[t].pc = "lock"
    /\ CanLockShared(users_mutex_)
    /\ users_mutex_' = [users_mutex_ EXCEPT !.readers = @ \cup {t}]
    /\ task' = [task EXCEPT ![t].pc = "find_if"]
    /\ UNCHANGED <<users_, cvars>>

\* lines 306-314: the first user with the id, or std::nullopt
FindIf(t) ==
    /\ task[t].kind = "find" /\ task[t].pc = "find_if"
    /\ LET hits == {i \in 1..Len(users_) : users_[i].id = task[t].id}
       IN  task' = [task EXCEPT ![t].pc = "ret",
                                ![t].result = IF hits = {} THEN 0 ELSE SetMin(hits)]
    /\ UNCHANGED <<users_, users_mutex_, cvars>>

\* lines 312, 314: the return, which releases the lock
FindReturn(t) ==
    /\ task[t].kind = "find" /\ task[t].pc = "ret"
    /\ users_mutex_' = Unlock(users_mutex_, t)
    /\ task' = [task EXCEPT ![t].pc = "done"]
    /\ UNCHANGED <<users_, cvars>>

\* line 340
EachLock(t) ==
    /\ task[t].kind = "each" /\ task[t].pc = "lock"
    /\ CanLockShared(users_mutex_)
    /\ users_mutex_' = [users_mutex_ EXCEPT !.readers = @ \cup {t}]
    /\ task' = [task EXCEPT ![t].pc = "for_each"]
    /\ UNCHANGED <<users_, cvars>>

\* line 341: func is applied to every user (const access); the result kept
\* is how many it saw
EachVisit(t) ==
    /\ task[t].kind = "each" /\ task[t].pc = "for_each"
    /\ task' = [task EXCEPT ![t].pc = "ret", ![t].result = Len(users_)]
    /\ UNCHANGED <<users_, users_mutex_, cvars>>

\* line 342
EachReturn(t) ==
    /\ task[t].kind = "each" /\ task[t].pc = "ret"
    /\ users_mutex_' = Unlock(users_mutex_, t)
    /\ task' = [task EXCEPT ![t].pc = "done"]
    /\ UNCHANGED <<users_, cvars>>

NextUsers ==
    \/ CallAddUserAsync
    \/ CallFindUserAsync
    \/ CallForEachUser
    \/ \E t \in Tasks : AddLock(t)
    \/ \E t \in Tasks : AddAnyOf(t)
    \/ \E t \in Tasks : AddEmplace(t)
    \/ \E t \in Tasks : AddReturn(t)
    \/ \E t \in Tasks : FindLock(t)
    \/ \E t \in Tasks : FindIf(t)
    \/ \E t \in Tasks : FindReturn(t)
    \/ \E t \in Tasks : EachLock(t)
    \/ \E t \in Tasks : EachVisit(t)
    \/ \E t \in Tasks : EachReturn(t)

SpecUsers == Init /\ [][NextUsers]_vars

\* ------------------------------------------------------------------------
\* Properties
\* ------------------------------------------------------------------------
OpenClients == {f \in Fds : fdtab[f] = "client"}

InHandler ==
    pc \in {"hcc_recv", "hcc_parse", "hcc_parsing", "hcc_route", "hcc_close"}

\* C1: connections are handled strictly one at a time.  At most one accepted
\* client socket is open at any moment; while handle_client_connection runs
\* it is the socket of the connection being handled; and whenever main is
\* back at its loop, about to call accept or past the loop, the socket of the
\* connection handled before is closed.
C1_OneAtATime ==
    /\ Cardinality(OpenClients) <= 1
    /\ InHandler => OpenClients = {client_socket}
    /\ pc \in {"loop", "accept", "cleanup", "exit_success"} => OpenClients = {}

\* the second connection is being handled, the first one's socket closed
C1_Witness ==
    /\ conn = 2
    /\ pc = "hcc_route"
    /\ OpenClients = {client_socket}

\* C3: when create_server_socket has returned, it returned -1 exactly when
\* socket, setsockopt, bind or listen failed, no descriptor is open after a
\* -1, and any other value returned is the descriptor of the listening socket.
C3_CreateServerSocket ==
    pc = "main_check" =>
        /\ css_ret = -1 <=> css_failed \in {"socket", "setsockopt", "bind", "listen"}
        /\ css_ret = -1 => fdtab = AllClosed
        /\ css_ret # -1 => /\ css_ret = sockfd
                           /\ css_ret \in Fds
                           /\ fdtab[css_ret] = "listening"

\* listen failed on a socket that had been created: -1, and the socket closed
C3_Witness ==
    /\ pc = "main_check"
    /\ css_failed = "listen"
    /\ sockfd \in Fds
    /\ css_ret = -1

\* the white-space separated tokens of a line
TokenCount(line) ==
    Cardinality({i \in 1..Len(line) :
                    ~IsSpace(line[i]) /\ (i = 1 \/ IsSpace(line[i - 1]))})

\* C4: when parse_http_request has returned, it returned -1 exactly when
\* raw_request or request was NULL, the copy could not be allocated, the
\* input had no first line, or the first line did not consist of three
\* white-space separated tokens, and 0 in every other case; and a connection
\* that handle_client_connection has left without routing it (the parse, or
\* recv, failed) got no response and has its socket closed.
C4_FailsExactlyWhen ==
    /\ parse.pc = "p_ret" =>
          LET first == strtok_r(arg.raw, 1)
              fails == \/ arg.raw_null
                       \/ arg.req_null
                       \/ ~arg.alloc_ok
                       \/ ~first.found
                       \/ TokenCount(first.tok) # 3
          IN  /\ parse.ret = -1 <=> fails
              /\ ~fails => parse.ret = 0
    /\ pc = "loop" /\ routed = "none" => sent = 0 /\ OpenClients = {}

\* the maximal runs of s without a character of seps
Runs(s, seps) ==
    LET n      == Len(s)
        starts == {i \in 1..n : s[i] \notin seps /\ (i = 1 \/ s[i - 1] \in seps)}
    IN  {SubSeq(s, i, SetMin({j \in i..n : j = n \/ s[j + 1] \in seps})) :
            i \in starts}

\* C6: the request side writes inside its buffers.  recv stores at most
\* MAX_BUFFER_SIZE - 1 bytes and the terminator index bytes_received is below
\* MAX_BUFFER_SIZE; method, path and version hold at most 15, 255 and 15
\* characters, so each fits with its terminator; after every step of
\* parse_http_request headers and body are shorter than MAX_BUFFER_SIZE; and
\* every line stored in headers is a whole line of the input (a line that
\* does not fit is skipped, not cut).
C6_WithinBuffers ==
    LET r == parse.request
    IN  /\ Len(buffer) <= MAX_BUFFER_SIZE - 1
        /\ Len(buffer) = bytes_received
        /\ bytes_received < MAX_BUFFER_SIZE
        /\ Len(r.method) + 1 <= METHOD_SIZE
        /\ Len(r.path) + 1 <= PATH_SIZE
        /\ Len(r.version) + 1 <= VERSION_SIZE
        /\ Len(r.headers) < MAX_BUFFER_SIZE
        /\ Len(r.body) < MAX_BUFFER_SIZE
        /\ r.headers # <<>> => Runs(r.headers, {LF}) \subseteq Runs(parse.copy, Delims)

\* a full buffer was received and parsed: a method cut to its width, and a
\* header line stored
C6_Witness ==
    /\ pc = "hcc_parsing"
    /\ bytes_received = MAX_BUFFER_SIZE - 1
    /\ parse.pc = "p_ret"
    /\ parse.ret = 0
    /\ Len(parse.request.method) = METHOD_WIDTH
    /\ Len(parse.request.headers) > 0

\* a thread is inside when it holds users_mutex_ and works on users_
Inside(t) == task[t].pc \notin {"lock", "done"}

\* C2: a task that modifies users_ (add_user_async) is never inside together
\* with any other task; tasks that are inside together are all readers
\* (find_user_async, for_each_user).
C2_WriterExcludesAll ==
    \A t1 \in Tasks, t2 \in Tasks :
        t1 # t2 /\ Inside(t1) /\ Inside(t2) =>
            task[t1].kind # "add" /\ task[t2].kind # "add"

\* an add is about to append while a reader and another add wait at the lock
C2_Witness ==
    \E w \in Tasks, r \in Tasks, a \in Tasks :
        /\ task[w].kind = "add" /\ task[w].pc = "emplace"
        /\ task[r].kind \in {"find", "each"} /\ task[r].pc = "lock"
        /\ task[a].kind = "add" /\ a # w /\ task[a].pc = "lock"

Adds(id) == {t \in Tasks : task[t].kind = "add" /\ task[t].id = id}

\* C5: users_ never holds two users with the same id; a finished
\* add_user_async yielded true iff its user is in users_; among the calls
\* with the same id at most one yields true, and exactly one once all of
\* them have finished.
C5_AddOncePerId ==
    /\ \A i \in 1..Len(users_), j \in 1..Len(users_) :
          i # j => users_[i].id # users_[j].id
    /\ \A t \in Tasks :
          task[t].kind = "add" /\ task[t].pc = "done" =>
              (task[t].result = 1 <=>
                  \E i \in 1..Len(users_) : users_[i] = [id |-> task[t].id, by |-> t])
    /\ \A id \in Ids :
          /\ Cardinality({t \in Adds(id) : task[t].result = 1}) <= 1
          /\ Adds(id) # {} /\ (\A t \in Adds(id) : task[t].pc = "done") =>
                /\ Cardinality({t \in Adds(id) : task[t].result = 1}) = 1
                /\ \A t \in Adds(id) : task[t].result \in {0, 1}

\* three calls with the same id have finished
C5_Witness ==
    \E t1 \in Tasks, t2 \in Tasks, t3 \in Tasks :
        /\ t1 < t2 /\ t2 < t3
        /\ \A t \in {t1, t2, t3} :
              task[t].kind = "add" /\ task[t].id = 1 /\ task[t].pc = "done"

====
